---- MODULE Spec2Model ----
(***************************************************************************)
(* Model of secretflow/component/model_export/model_export.py:             *)
(* ModelExport.evaluate, rebuild_preprocessing_nodes and rebuild_schema.   *)
(*                                                                         *)
(* A pyarrow field is a record [name, type]; a schema is a sequence of     *)
(* fields.  A Python dict is a sequence of <<key, value>> pairs in         *)
(* insertion order.  PYU devices are identified with their party names.    *)
(***************************************************************************)
EXTENDS Integers, Sequences, FiniteSets, TLC

\* ------------------------------------------------------------------ bounds

\* Largest number of entries of component_eval_params (one node per step).
MaxSteps == 3

\* Longest schema handed to rebuild_schema in SpecSchema.
MaxLen == 2

\* Largest size of the pipeline the steps record: the number of per-party input
\* and output schemas of its nodes plus the number of fields in them.
MaxSize == 12

\* ------------------------------------------------------------- value sets

\* builder.pyus, in the order of init_tbl.parties.
Parties == <<"alice", "bob">>

PartySet == {Parties[i] : i \in DOMAIN Parties}

F(n) == [name |-> n, type |-> "int"]

G(n) == [name |-> n, type |-> "str"]

\* Schemas a preprocessing step records for alice.
SchemaPool ==
    { <<>>, <<F("age"), F("income")>>, <<F("age"), F("income_bucket")>> }

\* Input schemas a train/predict step records for alice.
TrainInPool ==
    SchemaPool \cup { <<G("income_bucket"), F("income")>>, <<F("age"), G("age")>> }

\* Input schemas recorded for bob.
BobInPool == { <<F("age")>>, <<F("age"), F("income")>> }

\* Initial vertical tables: init_tbl.schemas, party -> column names.
InitTables ==
    { [alice |-> <<"age", "income">>, bob |-> <<"age">>],
      [alice |-> <<"age">>, bob |-> <<"age", "income">>] }

\* ------------------------------------------------------------ dict helpers

DictKeys(d) == {d[i][1] : i \in DOMAIN d}

DictHas(d, k) == k \in DictKeys(d)

DictGet(d, k) == d[CHOOSE i \in DOMAIN d : d[i][1] = k][2]

\* d[k] = v: replaces the value in place, or appends a new key.
DictPut(d, k, v) ==
    IF DictHas(d, k)
    THEN [i \in DOMAIN d |-> IF d[i][1] = k THEN <<k, v>> ELSE d[i]]
    ELSE Append(d, <<k, v>>)

\* ---------------------------------------------------------- schema helpers

SchemaNames(s) == [i \in DOMAIN s |-> s[i].name]

NameSet(s) == {s[i].name : i \in DOMAIN s}

UniqueNames(s) == \A i, j \in DOMAIN s : s[i].name = s[j].name => i = j

Min(a, b) == IF a < b THEN a ELSE b

\* ------------------------------------------------------------ rebuild_schema

\* Mutant of is_added: the manufactured-column rule is missing.
is_added_never(name, in_schema, out_schema) == FALSE

\* is_added = not is_input and is_output
is_added(name, in_schema, out_schema) ==
    name \notin NameSet(in_schema) /\ name \in NameSet(out_schema)

\* The fields of trace_schema the first loop keeps (new_trace_fields so far).
KeptFields(trace_schema, in_schema, out_schema) ==
    SelectSeq(trace_schema, LAMBDA f : ~is_added(f.name, in_schema, out_schema))

\* Mutant of ConsumedFields: the second loop is missing.
ConsumedFields_none(trace_schema, in_schema) == <<>>

\* Mutant of ConsumedFields: the second loop appends without its membership test.
ConsumedFields_all(trace_schema, in_schema) == in_schema

\* The fields of in_schema the second loop appends to new_trace_fields.
ConsumedFields(trace_schema, in_schema) ==
    SelectSeq(in_schema, LAMBDA f : f.name \notin NameSet(trace_schema))

\* Mutant of rebuild_schema: every kept field is appended to in_schema.
rebuild_schema_append_all(trace_schema, in_schema, out_schema) ==
    LET kept == KeptFields(trace_schema, in_schema, out_schema)
        new_out_fields ==
            SelectSeq(kept, LAMBDA f : f.name \notin NameSet(out_schema))
    IN  << kept \o ConsumedFields(trace_schema, in_schema),
           in_schema \o kept,
           out_schema \o new_out_fields >>

\* Mutant of rebuild_schema: out_schema is returned as recorded.
rebuild_schema_keep_out(trace_schema, in_schema, out_schema) ==
    LET kept == KeptFields(trace_schema, in_schema, out_schema)
        new_in_fields ==
            SelectSeq(kept, LAMBDA f : f.name \notin NameSet(in_schema))
    IN  << kept \o ConsumedFields(trace_schema, in_schema),
           in_schema \o new_in_fields,
           out_schema >>

rebuild_schema(trace_schema, in_schema, out_schema) ==
    LET kept == KeptFields(trace_schema, in_schema, out_schema)
        new_in_fields ==
            SelectSeq(kept, LAMBDA f : f.name \notin NameSet(in_schema))
        new_out_fields ==
            SelectSeq(kept, LAMBDA f : f.name \notin NameSet(out_schema))
    IN  << kept \o ConsumedFields(trace_schema, in_schema),
           in_schema \o new_in_fields,
           out_schema \o new_out_fields >>

\* ------------------------------------------------------------- collaborators

\* ServingNode.build_arrow_processing_kwargs(in_schema, out_schema, dag)
build_arrow_processing_kwargs(in_schema, out_schema, dag) ==
    [input_schema |-> in_schema, output_schema |-> out_schema, trace_content |-> dag]

\* ServingNode.add(pyu, in_schema, out_schema, kwargs)
NodeAdd(node, pyu, in_schema, out_schema, kwargs) ==
    [node EXCEPT !.input_schemas = DictPut(@, pyu, in_schema),
                 !.output_schemas = DictPut(@, pyu, out_schema),
                 !.kwargs = DictPut(@, pyu, kwargs)]

\* Table.from_schema(trace_schema).dump_serving_pb(name): an identity graph.
dump_serving_pb(trace_schema) == <<"noop", trace_schema, trace_schema>>

EmptyNode(phase) ==
    [phase |-> phase, input_schemas |-> <<>>, output_schemas |-> <<>>, kwargs |-> <<>>]

\* A step's export adds one fragment per participating party, in pyus order.
\* frag is <<>> (the party takes no part) or <<in_schema, out_schema>>.
AddFrag(node, pyu, frag) ==
    IF frag = <<>> THEN node
    ELSE NodeAdd(node, pyu, frag[1], frag[2],
                 build_arrow_processing_kwargs(frag[1], frag[2], "dag"))

AliceFrags == {<<>>} \cup (SchemaPool \X SchemaPool)

BobFrags == {<<>>} \cup {<<s, <<F("age")>>>> : s \in BobInPool}

\* A node with an output schema but no input schema for bob.
PartialNode ==
    [EmptyNode("PREPROCESSING") EXCEPT !.output_schemas = <<<<"bob", <<F("age")>>>>>>]

ExportedNodes(phase) ==
    CASE phase = "PREPROCESSING" ->
            { AddFrag(AddFrag(EmptyNode(phase), "alice", fa), "bob", fb) :
                fa \in AliceFrags, fb \in BobFrags } \cup {PartialNode}
      [] phase = "TRAIN_PREDICT" ->
            { AddFrag(AddFrag(EmptyNode(phase), "alice", fa), "bob", fb) :
                fa \in {<<>>} \cup {<<s, <<>>>> : s \in TrainInPool},
                fb \in {<<>>} \cup {<<s, <<>>>> : s \in BobInPool} }
      [] OTHER -> { EmptyNode(phase) }

\* Size of a recorded node, of a recorded pipeline: schemas plus their fields.
RECURSIVE DictFields(_)
DictFields(d) ==
    IF d = <<>> THEN 0
    ELSE DictFields(SubSeq(d, 1, Len(d) - 1)) + Len(d[Len(d)][2])

NodeSize(node) ==
    Len(node.input_schemas) + DictFields(node.input_schemas)
        + Len(node.output_schemas) + DictFields(node.output_schemas)

RECURSIVE PipelineSize(_)
PipelineSize(ns) ==
    IF ns = <<>> THEN 0
    ELSE PipelineSize(SubSeq(ns, 1, Len(ns) - 1)) + NodeSize(ns[Len(ns)])

\* Registry.get_definition_by_id: known = FALSE stands for None.
CompIds == {"prep", "train", "post", "stats", "unknown"}

CompDef(comp_id) ==
    CASE comp_id = "prep" ->
            [known |-> TRUE, exporter |-> TRUE, phase |-> "PREPROCESSING", n_in |-> 1, n_out |-> 1]
      [] comp_id = "train" ->
            [known |-> TRUE, exporter |-> TRUE, phase |-> "TRAIN_PREDICT", n_in |-> 2, n_out |-> 1]
      [] comp_id = "post" ->
            [known |-> TRUE, exporter |-> TRUE, phase |-> "POSTPROCESSING", n_in |-> 1, n_out |-> 1]
      [] comp_id = "stats" ->
            [known |-> TRUE, exporter |-> FALSE, phase |-> "none", n_in |-> 1, n_out |-> 1]
      [] OTHER ->
            [known |-> FALSE, exporter |-> FALSE, phase |-> "none", n_in |-> 0, n_out |-> 0]

\* All sequences over S of length at most n.
BoundedSeq(S, n) == UNION {[1..k -> S] : k \in 0..n}

\* ------------------------------------------------------------------- state

VARIABLES
    pc,                     \* position in evaluate / rebuild_preprocessing_nodes
    error,                  \* the exception evaluate ended with, or "none"
    component_eval_params,  \* comp_id of each step, in declared order
    input_datasets,         \* number of input datasets not yet sliced off
    output_datasets,        \* number of output datasets not yet sliced off
    step,                   \* index of the next entry of component_eval_params
    exported,               \* indices of the steps whose export has run
    init_schemas,           \* init_tbl.schemas: party -> column names
    nodes,                  \* builder.nodes
    recorded,               \* builder.nodes as the steps left them
    trace_schemas,          \* dict pyu -> trace schema
    cur,                    \* index of the node the backward loop is at
    pyu_i,                  \* index into builder.pyus of the inner loop
    hist,                   \* one record per finished pass of the inner loop body
    used_columns,           \* the reconciler's return value
    invalid_columns,        \* dict party -> offending names, in the error raised
    output_package,         \* whether self.output_package.data has been set
    report,                 \* self.report.data
    rs                      \* arguments and results of rebuild_schema (SpecSchema)

evalvars == << pc, error, component_eval_params, input_datasets, output_datasets,
               step, exported, init_schemas, nodes, recorded, trace_schemas, cur,
               pyu_i, hist, used_columns, invalid_columns, output_package, report >>

vars == << evalvars, rs >>

NoReport == [set |-> FALSE, desc |-> <<>>]

RsIdle == [pc |-> "idle", trace |-> <<>>, in |-> <<>>, out |-> <<>>,
           first |-> <<>>, second |-> <<>>]

EvalInit ==
    /\ pc = "evaluate"
    /\ error = "none"
    /\ component_eval_params \in BoundedSeq(CompIds, MaxSteps)
    /\ input_datasets \in {0, MaxSteps + 1}
    /\ output_datasets \in {0, MaxSteps}
    /\ step = 1
    /\ exported = <<>>
    /\ init_schemas = <<>>
    /\ nodes = <<>>
    /\ recorded = <<>>
    /\ trace_schemas = <<>>
    /\ cur = 0
    /\ pyu_i = 1
    /\ hist = <<>>
    /\ used_columns = <<>>
    /\ invalid_columns = <<>>
    /\ output_package = "unset"
    /\ report = NoReport

Init == EvalInit /\ rs = RsIdle

\* raise: evaluate ends with the exception, nothing else changes.
Raise(e) ==
    /\ pc' = "failed"
    /\ error' = e
    /\ UNCHANGED << component_eval_params, input_datasets, output_datasets, step,
                    exported, init_schemas, nodes, recorded, trace_schemas, cur,
                    pyu_i, hist, used_columns, invalid_columns, output_package,
                    report, rs >>

\* ---------------------------------------------------------------- evaluate

\* Lines 94-106: the three lists are decoded and must all be non-empty.
Validate ==
    /\ pc = "evaluate"
    /\ IF input_datasets = 0 \/ output_datasets = 0 \/ component_eval_params = <<>>
       THEN Raise("InvalidArgumentError")
       ELSE /\ pc' = "get_init_table"
            /\ UNCHANGED << error, component_eval_params, input_datasets,
                            output_datasets, step, exported, init_schemas, nodes,
                            recorded, trace_schemas, cur, pyu_i, hist, used_columns,
                            invalid_columns, output_package, report, rs >>

\* Lines 108-111 and get_init_table: exactly one vertical table among the first
\* step's inputs; n_vtables is what the datasets' types turn out to be.
GetInitTable ==
    /\ pc = "get_init_table"
    /\ LET comp_def == CompDef(component_eval_params[1]) IN
       IF ~comp_def.known
       THEN Raise("AttributeError")
       ELSE \E n_vtables \in 0..Min(comp_def.n_in, input_datasets) :
              IF n_vtables # 1
              THEN Raise("InvalidArgumentError")
              ELSE \E tbl \in InitTables :
                     /\ init_schemas' = tbl
                     /\ nodes' = <<>>
                     /\ pc' = "steps"
                     /\ UNCHANGED << error, component_eval_params, input_datasets,
                                     output_datasets, step, exported, recorded,
                                     trace_schemas, cur, pyu_i, hist, used_columns,
                                     invalid_columns, output_package, report, rs >>

\* Lines 112-132, one pass of the loop over component_eval_params.
ExportStep ==
    /\ pc = "steps"
    /\ LET comp_def == CompDef(component_eval_params[step]) IN
       IF ~comp_def.known
       THEN Raise("ValueError: unknown component")
       ELSE IF ~comp_def.exporter
       THEN /\ pc' = "failed"
            /\ error' = "NotSupportedError"
            /\ input_datasets' =
                  input_datasets - Min(comp_def.n_in, input_datasets)
            /\ output_datasets' =
                  output_datasets - Min(comp_def.n_out, output_datasets)
            /\ UNCHANGED << component_eval_params, step, exported, init_schemas,
                            nodes, recorded, trace_schemas, cur, pyu_i, hist,
                            used_columns, invalid_columns, output_package,
                            report, rs >>
       ELSE \E node \in ExportedNodes(comp_def.phase) :
              /\ PipelineSize(nodes) + NodeSize(node) <= MaxSize
              /\ input_datasets' =
                    input_datasets - Min(comp_def.n_in, input_datasets)
              /\ output_datasets' =
                    output_datasets - Min(comp_def.n_out, output_datasets)
              /\ nodes' = Append(nodes, node)
              /\ exported' = Append(exported, step)
              /\ step' = step + 1
              /\ pc' = IF step = Len(component_eval_params)
                       THEN "rebuild" ELSE "steps"
              /\ UNCHANGED << error, component_eval_params, init_schemas, recorded,
                              trace_schemas, cur, pyu_i, hist, used_columns,
                              invalid_columns, output_package, report, rs >>

\* ---------------------------------------------- rebuild_preprocessing_nodes

ReconciledPhases == {"PREPROCESSING", "TRAIN_PREDICT"}

\* Mutant of RunEnd: the loop does not break at the TRAIN_PREDICT node.
RunEnd_all(ns) == Len(ns)

\* Lines 178-186: the loop appends nodes up to and including the first
\* TRAIN_PREDICT node; RunEnd is the index of the last node appended.
RunEnd(ns) ==
    IF \E i \in DOMAIN ns : ns[i].phase = "TRAIN_PREDICT"
    THEN CHOOSE i \in DOMAIN ns :
            /\ ns[i].phase = "TRAIN_PREDICT"
            /\ \A j \in 1..(i - 1) : ns[j].phase # "TRAIN_PREDICT"
    ELSE Len(ns)

\* init_columns = {PYU(party): set(s.names) ...}
InitColumns(schemas) ==
    [p \in DOMAIN schemas |-> {schemas[p][i] : i \in DOMAIN schemas[p]}]

\* Mutant of TraceOf: the lookup always yields the default.
TraceOf_empty(ts, pyu) == <<>>

\* trace_schemas.get(pyu, pa.schema([]))
TraceOf(ts, pyu) == IF DictHas(ts, pyu) THEN DictGet(ts, pyu) ELSE <<>>

\* Lines 171-194: the assertions, the early return, the collected run, and the
\* trace schemas copied from the run's last node.
Collect ==
    /\ pc = "rebuild"
    /\ IF Len(nodes) = 0
       THEN Raise("AssertionError")
       ELSE IF nodes[1].phase \notin ReconciledPhases
       THEN /\ used_columns' = <<>>
            /\ recorded' = nodes
            /\ pc' = "dump_tar_files"
            /\ UNCHANGED << error, component_eval_params, input_datasets,
                            output_datasets, step, exported, init_schemas, nodes,
                            trace_schemas, cur, pyu_i, hist, invalid_columns,
                            output_package, report, rs >>
       ELSE IF \E i \in 1..RunEnd(nodes) : nodes[i].phase \notin ReconciledPhases
       THEN Raise("AssertionError")
       ELSE /\ recorded' = nodes
            /\ trace_schemas' = nodes[RunEnd(nodes)].input_schemas
            /\ cur' = RunEnd(nodes) - 1
            /\ pyu_i' = 1
            /\ pc' = IF RunEnd(nodes) = 1 THEN "check_columns" ELSE "repair"
            /\ UNCHANGED << error, component_eval_params, input_datasets,
                            output_datasets, step, exported, init_schemas, nodes,
                            hist, used_columns, invalid_columns, output_package,
                            report, rs >>

\* Lines 197-214: one pass of the inner loop body, for node `cur` and the
\* party at `pyu_i`; then the loops advance.
RepairStep ==
    /\ pc = "repair"
    /\ LET node == nodes[cur]
           pyu == Parties[pyu_i]
           trace_schema == TraceOf(trace_schemas, pyu)
           gap == ~DictHas(node.input_schemas, pyu)
           rebuilt == rebuild_schema(trace_schema,
                                     DictGet(node.input_schemas, pyu),
                                     DictGet(node.output_schemas, pyu))
           dumped == dump_serving_pb(trace_schema)
           in_schema == IF gap THEN dumped[2] ELSE rebuilt[2]
           out_schema == IF gap THEN dumped[3] ELSE rebuilt[3]
           dag == IF gap THEN dumped[1]
                  ELSE DictGet(node.kwargs, pyu).trace_content
           new_traces == IF gap THEN trace_schemas
                         ELSE DictPut(trace_schemas, pyu, rebuilt[1])
       IN
       IF gap /\ (DictHas(node.output_schemas, pyu) \/ DictHas(node.kwargs, pyu))
       THEN Raise("AssertionError")
       ELSE IF ~gap /\ ~(DictHas(node.output_schemas, pyu) /\ DictHas(node.kwargs, pyu))
       THEN Raise("KeyError")
       ELSE /\ trace_schemas' = new_traces
            /\ nodes' = [nodes EXCEPT ![cur] =
                            NodeAdd(@, pyu, in_schema, out_schema,
                                    build_arrow_processing_kwargs(in_schema, out_schema, dag))]
            /\ hist' = Append(hist, [node |-> cur, pyu |-> pyu, gap |-> gap,
                                     before |-> trace_schemas, after |-> new_traces])
            /\ IF pyu_i < Len(Parties)
               THEN /\ pyu_i' = pyu_i + 1
                    /\ UNCHANGED << cur, pc >>
               ELSE /\ pyu_i' = 1
                    /\ cur' = cur - 1
                    /\ pc' = IF cur = 1 THEN "check_columns" ELSE "repair"
            /\ UNCHANGED << error, component_eval_params, input_datasets,
                            output_datasets, step, exported, init_schemas, recorded,
                            used_columns, invalid_columns, output_package, report, rs >>

\* Mutant of CheckColumns: the membership test is inverted.
RECURSIVE CheckColumns_inverted(_, _)
CheckColumns_inverted(ts, init_columns) ==
    IF ts = <<>>
    THEN [invalid |-> <<>>, used |-> <<>>]
    ELSE LET rest == CheckColumns_inverted(SubSeq(ts, 1, Len(ts) - 1), init_columns)
             pyu == ts[Len(ts)][1]
             names == SchemaNames(ts[Len(ts)][2])
             bad == SelectSeq(names, LAMBDA n : n \in init_columns[pyu])
             good == SelectSeq(names, LAMBDA n : n \notin init_columns[pyu])
         IN  [invalid |-> IF bad = <<>> THEN rest.invalid
                          ELSE Append(rest.invalid, <<pyu, bad>>),
              used |-> rest.used \o good]

\* Mutant of CheckColumns: only the first offending column is recorded.
RECURSIVE CheckColumns_first(_, _)
CheckColumns_first(ts, init_columns) ==
    IF ts = <<>>
    THEN [invalid |-> <<>>, used |-> <<>>]
    ELSE LET rest == CheckColumns_first(SubSeq(ts, 1, Len(ts) - 1), init_columns)
             pyu == ts[Len(ts)][1]
             names == SchemaNames(ts[Len(ts)][2])
             bad == SelectSeq(names, LAMBDA n : n \notin init_columns[pyu])
             good == SelectSeq(names, LAMBDA n : n \in init_columns[pyu])
         IN  [invalid |-> IF bad = <<>> \/ rest.invalid # <<>> THEN rest.invalid
                          ELSE <<<<pyu, <<bad[1]>>>>>>,
              used |-> rest.used \o good]

\* Lines 216-224: every field of every final trace schema goes to the party's
\* invalid list or to used_columns, in dict order.
RECURSIVE CheckColumns(_, _)
CheckColumns(ts, init_columns) ==
    IF ts = <<>>
    THEN [invalid |-> <<>>, used |-> <<>>]
    ELSE LET rest == CheckColumns(SubSeq(ts, 1, Len(ts) - 1), init_columns)
             pyu == ts[Len(ts)][1]
             names == SchemaNames(ts[Len(ts)][2])
             bad == SelectSeq(names, LAMBDA n : n \notin init_columns[pyu])
             good == SelectSeq(names, LAMBDA n : n \in init_columns[pyu])
         IN  [invalid |-> IF bad = <<>> THEN rest.invalid
                          ELSE Append(rest.invalid, <<pyu, bad>>),
              used |-> rest.used \o good]

\* Mutant of FinalCheck: the invalid columns are not raised.
FinalCheck_lenient ==
    /\ pc = "check_columns"
    /\ used_columns' = CheckColumns(trace_schemas, InitColumns(init_schemas)).used
    /\ pc' = "dump_tar_files"
    /\ UNCHANGED << error, component_eval_params, input_datasets, output_datasets,
                    step, exported, init_schemas, nodes, recorded, trace_schemas,
                    cur, pyu_i, hist, invalid_columns, output_package, report, rs >>

\* Lines 216-229: the traceability check and the return.
FinalCheck ==
    /\ pc = "check_columns"
    /\ LET res == CheckColumns(trace_schemas, InitColumns(init_schemas)) IN
       IF Len(res.invalid) > 0
       THEN /\ invalid_columns' = res.invalid
            /\ pc' = "failed"
            /\ error' = "ValueError: invalid columns"
            /\ UNCHANGED << component_eval_params, input_datasets, output_datasets,
                            step, exported, init_schemas, nodes, recorded,
                            trace_schemas, cur, pyu_i, hist, used_columns,
                            output_package, report, rs >>
       ELSE /\ used_columns' = res.used
            /\ pc' = "dump_tar_files"
            /\ UNCHANGED << error, component_eval_params, input_datasets,
                            output_datasets, step, exported, init_schemas, nodes,
                            recorded, trace_schemas, cur, pyu_i, hist,
                            invalid_columns, output_package, report, rs >>

\* Lines 135, 266-284: the package is written and output_package.data set.
DumpTarFiles ==
    /\ pc = "dump_tar_files"
    /\ output_package' = "set"
    /\ pc' = "dump_report"
    /\ UNCHANGED << error, component_eval_params, input_datasets, output_datasets,
                    step, exported, init_schemas, nodes, recorded, trace_schemas,
                    cur, pyu_i, hist, used_columns, invalid_columns, report, rs >>

\* Lines 136, 286-298: report.data gets the used columns (joined by ",").
DumpReport ==
    /\ pc = "dump_report"
    /\ report' = [set |-> TRUE, desc |-> used_columns]
    /\ pc' = "done"
    /\ UNCHANGED << error, component_eval_params, input_datasets, output_datasets,
                    step, exported, init_schemas, nodes, recorded, trace_schemas,
                    cur, pyu_i, hist, used_columns, invalid_columns,
                    output_package, rs >>

Next ==
    \/ Validate
    \/ GetInitTable
    \/ ExportStep
    \/ Collect
    \/ RepairStep
    \/ FinalCheck
    \/ DumpTarFiles
    \/ DumpReport

Spec == Init /\ [][Next]_vars

\* ------------------------------------------- rebuild_schema on its own

FieldPool == {F("age"), G("age"), F("income"), F("income_bucket")}

EvalIdle ==
    /\ pc = "idle"
    /\ error = "none"
    /\ component_eval_params = <<>>
    /\ input_datasets = 0
    /\ output_datasets = 0
    /\ step = 1
    /\ exported = <<>>
    /\ init_schemas = <<>>
    /\ nodes = <<>>
    /\ recorded = <<>>
    /\ trace_schemas = <<>>
    /\ cur = 0
    /\ pyu_i = 1
    /\ hist = <<>>
    /\ used_columns = <<>>
    /\ invalid_columns = <<>>
    /\ output_package = "unset"
    /\ report = NoReport

InitSchema ==
    /\ EvalIdle
    /\ \E t \in BoundedSeq(FieldPool, MaxLen), i \in BoundedSeq(FieldPool, MaxLen),
          o \in BoundedSeq(FieldPool, MaxLen) :
          rs = [RsIdle EXCEPT !.pc = "args", !.trace = t, !.in = i, !.out = o]

\* (t1, in1, out1) = rebuild_schema(trace, nodeIn, nodeOut)
RepairOnce ==
    /\ rs.pc = "args"
    /\ rs' = [rs EXCEPT !.pc = "once",
                        !.first = rebuild_schema(rs.trace, rs.in, rs.out)]
    /\ UNCHANGED evalvars

\* (t2, in2, out2) = rebuild_schema(t1, nodeIn, nodeOut)
RepairTwice ==
    /\ rs.pc = "once"
    /\ rs' = [rs EXCEPT !.pc = "twice",
                        !.second = rebuild_schema(rs.first[1], rs.in, rs.out)]
    /\ UNCHANGED evalvars

NextSchema == RepairOnce \/ RepairTwice

SpecSchema == InitSchema /\ [][NextSchema]_vars

\* ------------------------------------------------------- claim vocabulary

\* rebuild_preprocessing_nodes has returned to evaluate.
Returned == pc \in {"dump_tar_files", "dump_report", "done"}

\* The call got past the early return: the first node is reconciled.
FirstReconciled ==
    /\ recorded # <<>>
    /\ recorded[1].phase \in ReconciledPhases

InvalidRaised == pc = "failed" /\ error = "ValueError: invalid columns"

\* The backward pass over the collected run is finished.
PassDone ==
    /\ FirstReconciled
    /\ pc = "check_columns" \/ Returned \/ InvalidRaised

\* The traceability check has run.
CheckRan == FirstReconciled /\ (Returned \/ InvalidRaised)

InputOf(node, p) ==
    IF DictHas(node.input_schemas, p) THEN DictGet(node.input_schemas, p) ELSE <<>>

CurrentTrace(ts, p) == IF DictHas(ts, p) THEN DictGet(ts, p) ELSE <<>>

\* Names of the party's final trace schema that its initial table lacks.
Offenders(p) ==
    {n \in NameSet(CurrentTrace(trace_schemas, p)) :
        n \notin {init_schemas[p][i] : i \in DOMAIN init_schemas[p]}}

RECURSIVE FlatNames(_)
FlatNames(d) ==
    IF d = <<>> THEN <<>>
    ELSE FlatNames(SubSeq(d, 1, Len(d) - 1)) \o SchemaNames(d[Len(d)][2])

SeqSet(q) == {q[i] : i \in DOMAIN q}

AgeIncome == <<F("age"), F("income")>>

AgeBucket == <<F("age"), F("income_bucket")>>

\* The pipeline of the end-to-end scenario: alice's table is {age, income}, one
\* PREPROCESSING node, one TRAIN_PREDICT node, bob takes no part.
Scenario ==
    /\ Returned
    /\ init_schemas.alice = <<"age", "income">>
    /\ recorded =
         << AddFrag(EmptyNode("PREPROCESSING"), "alice", <<AgeIncome, AgeBucket>>),
            AddFrag(EmptyNode("TRAIN_PREDICT"), "alice", <<AgeBucket, <<>>>>) >>

\* --------------------------------------------------------------- claims

\* C1: when rebuild_preprocessing_nodes returns for a pipeline whose first node
\* is PREPROCESSING or TRAIN_PREDICT, every returned used column is a field
\* name of some party's final trace schema and a column of that party's
\* initial table.
C1_UsedColumnsTraceable ==
    (Returned /\ FirstReconciled) =>
        \A i \in DOMAIN used_columns :
            \E p \in PartySet :
                /\ used_columns[i] \in NameSet(CurrentTrace(trace_schemas, p))
                /\ used_columns[i] \in SeqSet(init_schemas[p])

C1_Witness ==
    /\ Returned /\ FirstReconciled
    /\ Len(recorded) >= 2
    /\ Len(used_columns) >= 3

\* C2 as stated: in the end-to-end scenario the used columns are exactly
\* <<"age">>.
C2_OnlyAge == Scenario => used_columns = <<"age">>

\* C2 amended: in the end-to-end scenario the used columns are exactly
\* <<"age", "income">>: income_bucket is dropped as manufactured, and income,
\* which the preprocessing node consumes, is traced back to the initial table.
C2_AgeAndIncome == Scenario => used_columns = <<"age", "income">>

C2_Witness == Scenario /\ pc = "done"

\* C3 as stated: when the first node is TRAIN_PREDICT the call returns no used
\* columns and leaves every node unchanged.
C3_EmptyResult ==
    (CheckRan /\ recorded[1].phase = "TRAIN_PREDICT") =>
        /\ Returned
        /\ used_columns = <<>>
        /\ nodes = recorded

\* C3 amended: when the first node is TRAIN_PREDICT every node stays as
\* recorded; the call returns the field names of that node's recorded input
\* schemas, party by party, when each is a column of its party's initial table,
\* and raises the invalid-columns error otherwise.
C3_BoundaryInputsReturned ==
    (FirstReconciled /\ recorded[1].phase = "TRAIN_PREDICT") =>
        /\ nodes = recorded
        /\ Returned => used_columns = FlatNames(recorded[1].input_schemas)
        /\ Returned => \A p \in PartySet :
              NameSet(InputOf(recorded[1], p)) \subseteq SeqSet(init_schemas[p])
        /\ InvalidRaised => \E p \in PartySet :
              ~(NameSet(InputOf(recorded[1], p)) \subseteq SeqSet(init_schemas[p]))

C3_Witness ==
    /\ Returned /\ FirstReconciled
    /\ recorded[1].phase = "TRAIN_PREDICT"
    /\ Len(recorded) >= 2
    /\ Len(used_columns) >= 2

\* Names node k's recorded fragment for p has in its output and not in its input.
Manufactured(k, p) ==
    NameSet(DictGet(recorded[k].output_schemas, p))
        \ NameSet(DictGet(recorded[k].input_schemas, p))

\* No node before k lists name x in its recorded input schema for p.
NoEarlierInput(k, p, x) ==
    \A j \in 1..(k - 1) : x \notin NameSet(InputOf(recorded[j], p))

\* C4 as stated: a manufactured column is absent from the trace schema the
\* node's repair step returns and never appears in the used columns.
C4_NeverUsed ==
    \A h \in DOMAIN hist :
        ~hist[h].gap =>
            \A x \in Manufactured(hist[h].node, hist[h].pyu) :
                /\ x \notin NameSet(CurrentTrace(hist[h].after, hist[h].pyu))
                /\ Returned => x \notin SeqSet(used_columns)

\* C4 amended: a manufactured column is absent from the trace schema the
\* node's repair step returns; when no earlier node lists the name in its
\* recorded input schema for that party, it stays out of that party's trace
\* schema, and it is among the used columns only if another party's final
\* trace schema holds the name.
C4_DroppedUnlessReintroduced ==
    \A h \in DOMAIN hist :
        ~hist[h].gap =>
            \A x \in Manufactured(hist[h].node, hist[h].pyu) :
                /\ x \notin NameSet(CurrentTrace(hist[h].after, hist[h].pyu))
                /\ NoEarlierInput(hist[h].node, hist[h].pyu, x) =>
                     /\ x \notin NameSet(CurrentTrace(trace_schemas, hist[h].pyu))
                     /\ (Returned /\ x \in SeqSet(used_columns)) =>
                            \E q \in PartySet \ {hist[h].pyu} :
                                x \in NameSet(CurrentTrace(trace_schemas, q))

C4_Witness ==
    /\ Returned
    /\ \E h \in DOMAIN hist :
          /\ ~hist[h].gap
          /\ \E x \in Manufactured(hist[h].node, hist[h].pyu) :
                /\ x \in NameSet(CurrentTrace(hist[h].before, hist[h].pyu))
                /\ NoEarlierInput(hist[h].node, hist[h].pyu, x)
                /\ hist[h].node > 1

\* C5: when some final trace schema holds a name its party's initial table
\* lacks, the call raises one error whose content holds exactly the parties
\* with such names and, for each, every such name; it returns only when no
\* party has one.
C5_AggregatedError ==
    CheckRan =>
        IF \E p \in PartySet : Offenders(p) # {}
        THEN /\ InvalidRaised
             /\ DictKeys(invalid_columns) = {p \in PartySet : Offenders(p) # {}}
             /\ \A p \in DictKeys(invalid_columns) :
                    SeqSet(DictGet(invalid_columns, p)) = Offenders(p)
        ELSE Returned /\ invalid_columns = <<>>

C5_Witness ==
    /\ InvalidRaised
    /\ Len(recorded) >= 2
    /\ \A p \in PartySet :
          DictHas(invalid_columns, p) /\ Len(DictGet(invalid_columns, p)) = 1

\* The party's trace schema in the dict the loop body started from.
TraceBefore(h) == CurrentTrace(hist[h].before, hist[h].pyu)

\* Node k holds an identity fragment for p over schema s.
IdentityFragment(k, p, s) ==
    /\ DictHas(nodes[k].input_schemas, p)
    /\ DictHas(nodes[k].output_schemas, p)
    /\ DictHas(nodes[k].kwargs, p)
    /\ DictGet(nodes[k].input_schemas, p) = s
    /\ DictGet(nodes[k].output_schemas, p) = s
    /\ DictGet(nodes[k].kwargs, p) = build_arrow_processing_kwargs(s, s, "noop")

\* C6 as stated: every node of the collected run, the boundary node included,
\* that records no fragment for a party holds a synthesized one after the pass.
C6_EveryRunNode ==
    PassDone =>
        \A k \in 1..RunEnd(recorded), p \in PartySet :
            ~DictHas(recorded[k].input_schemas, p) =>
                /\ DictHas(nodes[k].input_schemas, p)
                /\ DictHas(nodes[k].output_schemas, p)

\* C6 amended: every node of the collected run before the boundary node that
\* records no fragment for a party holds, after the pass, a synthesized
\* fragment whose input and output schema equal the party's trace schema as it
\* was when the node was processed (empty if no later node of the run records
\* an input schema for the party), and the trace schemas are passed on
\* unchanged; the boundary node is left as recorded.
C6_GapIdentity ==
    /\ \A h \in DOMAIN hist :
          hist[h].gap =>
            /\ ~DictHas(recorded[hist[h].node].input_schemas, hist[h].pyu)
            /\ IdentityFragment(hist[h].node, hist[h].pyu, TraceBefore(h))
            /\ hist[h].after = hist[h].before
            /\ (\A j \in (hist[h].node + 1)..RunEnd(recorded) :
                    ~DictHas(recorded[j].input_schemas, hist[h].pyu))
                 => TraceBefore(h) = <<>>
    /\ PassDone =>
          /\ nodes[RunEnd(recorded)] = recorded[RunEnd(recorded)]
          /\ \A k \in 1..(RunEnd(recorded) - 1), p \in PartySet :
                ~DictHas(recorded[k].input_schemas, p) =>
                    \E h \in DOMAIN hist :
                        hist[h].node = k /\ hist[h].pyu = p /\ hist[h].gap

C6_Witness ==
    /\ PassDone
    /\ \E h \in DOMAIN hist :
          /\ hist[h].gap
          /\ hist[h].node = 1
          /\ Len(TraceBefore(h)) = 2
          /\ ~DictHas(recorded[2].input_schemas, hist[h].pyu)

RsUnique == UniqueNames(rs.trace) /\ UniqueNames(rs.in) /\ UniqueNames(rs.out)

\* C7 as stated: with unique field names, repairing again from the first
\* call's trace, against the same nodeIn and nodeOut, returns the first call's
\* three results.
C7_FixedPoint ==
    (rs.pc = "twice" /\ RsUnique) => rs.second = rs.first

\* C7 amended: with unique field names, the second call returns the first
\* call's trace and input schema; its output schema is the first call's output
\* schema followed by the fields of nodeIn whose names are neither in the
\* original trace nor in nodeOut.
C7_TraceAndInputFixed ==
    (rs.pc = "twice" /\ RsUnique) =>
        /\ rs.second[1] = rs.first[1]
        /\ rs.second[2] = rs.first[2]
        /\ rs.second[3] =
              rs.first[3] \o
              SelectSeq(rs.in, LAMBDA f : /\ f.name \notin NameSet(rs.trace)
                                          /\ f.name \notin NameSet(rs.out))

C7_Witness ==
    /\ rs.pc = "twice"
    /\ RsUnique
    /\ Len(rs.trace) = 2
    /\ Len(rs.first[1]) = 3
    /\ Len(rs.second[3]) > Len(rs.first[3])
    /\ Len(rs.first[2]) > Len(rs.in)

\* Every schema of the dict has unique field names.
UniqueDict(d) == \A i \in DOMAIN d : UniqueNames(d[i][2])

UniqueNodes(ns) ==
    \A k \in DOMAIN ns :
        UniqueDict(ns[k].input_schemas) /\ UniqueDict(ns[k].output_schemas)

\* C8: when no recorded schema repeats a field name, then in every state
\* during and after reconciliation no node's input or output schema and no
\* trace schema repeats a field name.
C8_NoDuplicateNames ==
    (recorded # <<>> /\ UniqueNodes(recorded)) =>
        UniqueNodes(nodes) /\ UniqueDict(trace_schemas)

C8_Witness ==
    /\ PassDone
    /\ UniqueNodes(recorded)
    /\ \E h \in DOMAIN hist :
          /\ ~hist[h].gap
          /\ Len(DictGet(nodes[hist[h].node].input_schemas, hist[h].pyu))
               > Len(DictGet(recorded[hist[h].node].input_schemas, hist[h].pyu))
          /\ Len(DictGet(nodes[hist[h].node].output_schemas, hist[h].pyu))
               > Len(DictGet(recorded[hist[h].node].output_schemas, hist[h].pyu))

\* C9: the package is produced only after every step has exported in declared
\* order and the reconciler has returned without error, the report only after
\* the package; once validation, a lookup, a capability check, an assertion or
\* the traceability check has failed, neither is produced.
C9_NoPartialSuccess ==
    /\ output_package = "set" =>
          /\ exported = [i \in 1..Len(component_eval_params) |-> i]
          /\ Len(nodes) = Len(component_eval_params)
          /\ recorded # <<>>
          /\ pc \in {"dump_report", "done"}
          /\ error = "none"
          /\ FirstReconciled => \A p \in PartySet : Offenders(p) = {}
          /\ \A k \in 1..RunEnd(recorded) :
                FirstReconciled => recorded[k].phase \in ReconciledPhases
    /\ report.set => (output_package = "set" /\ pc = "done")
    /\ (error # "none" \/ pc = "failed") =>
          (output_package = "unset" /\ ~report.set)

C9_Witness ==
    /\ pc = "done"
    /\ report.set /\ output_package = "set"
    /\ Len(exported) = MaxSteps
    /\ FirstReconciled
    /\ Len(report.desc) >= 2

\* C10: after the backward pass, for consecutive nodes n, n+1 of the collected
\* run and every party, each field name of node n+1's input schema (empty when
\* the boundary node records none) is a field name of node n's rewritten output
\* schema; and for every processed node with a fragment for the party, the
\* trace schema handed to the next earlier node and the node's rewritten input
\* schema have the same set of names.
C10_AdjacentCompose ==
    /\ PassDone =>
          \A n \in 1..(RunEnd(recorded) - 1), p \in PartySet :
              /\ DictHas(nodes[n].output_schemas, p)
              /\ NameSet(InputOf(nodes[n + 1], p))
                    \subseteq NameSet(DictGet(nodes[n].output_schemas, p))
    /\ \A h \in DOMAIN hist :
          ~hist[h].gap =>
              NameSet(CurrentTrace(hist[h].after, hist[h].pyu))
                = NameSet(DictGet(nodes[hist[h].node].input_schemas, hist[h].pyu))

C10_Witness ==
    /\ PassDone
    /\ RunEnd(recorded) = 3
    /\ \E p \in PartySet :
          /\ DictHas(recorded[1].output_schemas, p)
          /\ DictHas(recorded[2].output_schemas, p)
          /\ Len(DictGet(nodes[1].output_schemas, p))
               > Len(DictGet(recorded[1].output_schemas, p))
          /\ Len(DictGet(nodes[2].output_schemas, p))
               > Len(DictGet(recorded[2].output_schemas, p))

====
